---- MODULE Spec2Model ----
(***************************************************************************)
(* Seasonal Hybrid ESD anomaly detection (anoms.py): the orchestrator      *)
(* detect_anoms, the window processor, the ESD outlier tester and the two  *)
(* post-processing filters, as a state machine with one step per loop      *)
(* iteration of detect_anoms.                                              *)
(*                                                                         *)
(* Numbers.  Series values are integers.  Medians of integer lists are     *)
(* half-integers, so medians are carried doubled (Med2 = 2 * median) and   *)
(* residuals are carried in units of 1/2; the ESD score is a ratio, so the *)
(* unit cancels.  max_anoms and alpha are carried in hundredths, lambda in *)
(* thousandths, thresholds in hundredths.                                  *)
(*                                                                         *)
(* Python's None is the empty tuple << >>, a present value v is << v >>.   *)
(* List indices are 0-based as in the code; x[g + 1] reads Python's x[g].  *)
(***************************************************************************)
EXTENDS Integers, Sequences, FiniteSets, TLC

\* ------------------------------------------------------------------ bounds
MaxLen == 5
MaxShortLen == 3
Values == {0, 1, 3, 4}

None == << >>
Some(v) == << v >>

Abs(a) == IF a < 0 THEN -a ELSE a
Min(a, b) == IF a < b THEN a ELSE b
Max(a, b) == IF a > b THEN a ELSE b
Sgn(a) == IF a > 0 THEN 1 ELSE IF a < 0 THEN -1 ELSE 0

RECURSIVE SeqSum(_)
SeqSum(s) == IF s = << >> THEN 0 ELSE Head(s) + SeqSum(Tail(s))

RECURSIVE SeqMax(_)
SeqMax(s) == IF Len(s) = 1 THEN s[1] ELSE Max(Head(s), SeqMax(Tail(s)))

Sorted(s) == SortSeq(s, LAMBDA a, b: a < b)

RECURSIVE SortedSet(_)
SortedSet(S) ==
    IF S = {} THEN << >>
    ELSE LET m == CHOOSE a \in S : \A b \in S : a <= b
         IN  << m >> \o SortedSet(S \ {m})

\* ------------------------------------------------------- Python list access
\* s[start:stop] of a Python list: negative bounds count from the end and
\* everything is clamped to the list.
PySliceBound(b, len) == IF b < 0 THEN Max(b + len, 0) ELSE Min(b, len)

PySlice(s, start, stop) ==
    LET lo == PySliceBound(start, Len(s))
        hi == PySliceBound(stop, Len(s))
    IN  IF lo >= hi THEN << >> ELSE SubSeq(s, lo + 1, hi)

\* s[i] of a Python list: a negative index counts from the end, an index
\* outside -len..len-1 raises IndexError.
PyIndexOk(i, len) == -len <= i /\ i < len
PyIndex(i, len) == IF i < 0 THEN i + len ELSE i

\* ------------------------------------------------------------------ medians
\* 2 * np.median(s): the middle element, or the mean of the two middle ones.
Med2(s) ==
    LET t == Sorted(s)
        m == Len(t)
    IN  IF m % 2 = 1 THEN 2 * t[(m + 1) \div 2]
        ELSE t[m \div 2] + t[m \div 2 + 1]

\* 100 * np.percentile(s, q), linear interpolation between closest ranks.
Percentile100(s, q) ==
    LET t == Sorted(s)
        pos == (Len(t) - 1) * q
        lo == pos \div 100
        frac == pos % 100
    IN  IF frac = 0 THEN 100 * t[lo + 1]
        ELSE 100 * t[lo + 1] + frac * (t[lo + 2] - t[lo + 1])

\* ------------------------------------------------------------ STL (external)
\* pyloess.stl is an external library.  Its contract: seasonal and trend have
\* the length of the input, are a function of (series, period), the seasonal
\* component has the given period, is zero on a constant series and changes
\* sign with the series.  The stand-in below has these properties: the
\* seasonal value of a phase is the sign of (phase mean - overall mean), the
\* trend is the floor of the mean.
StlSeasonal(s, period) ==
    LET total == SeqSum(s)
        phase == [c \in 0..(period - 1) |->
                    LET in(j) == (j - 1) % period = c
                    IN  Sgn(SeqSum([j \in 1..Len(s) |-> IF in(j) THEN s[j] ELSE 0]) * Len(s)
                            - total * SeqSum([j \in 1..Len(s) |-> IF in(j) THEN 1 ELSE 0]))]
    IN  [i \in 1..Len(s) |-> phase[(i - 1) % period]]

StlTrend(s) ==
    LET mean == SeqSum(s) \div Len(s)
    IN  [i \in 1..Len(s) |-> mean]

\* ------------------------------------------------------------ trend estimator
\* 2 * _get_trends_by_median(x)
_get_trends_by_median(s) ==
    LET median2 == Med2(s)
    IN  [i \in 1..Len(s) |-> median2]

\* --------------------------------------------------------- ESD outlier tester
\* lam of _esd in thousandths, as a function of the number of points still in
\* the working set (n - i + 1): p = 1 - alpha / (2 * (n-i+1)) for 'both' and
\* 1 - alpha / (n-i+1) otherwise, crit = t.ppf(p, n-i-1),
\* lam = (n-i) * crit / sqrt((n-i-1 + crit^2) * (n-i+1)).  scipy's t.ppf is
\* nan for n-i-1 <= 0 degrees of freedom, and so is lam; the entries were
\* computed from the t distribution for alpha = 0.05 and alpha = 2.4.
LamTable ==
    [a \in {5, 240} |-> [two \in BOOLEAN |->
        IF a = 5 /\ two THEN << 1154, 1481, 1715, 1887, 2020, 2127, 2215 >>
        ELSE IF a = 5 THEN << 1153, 1463, 1671, 1822, 1938, 2032, 2110 >>
        ELSE IF two THEN << 357, 600, 754, 869, 962, 1040, 1107 >>
        ELSE << -934, -300, 56, 274, 427, 545, 641 >>]]

\* [nan |-> TRUE] or [nan |-> FALSE, v |-> lam in thousandths]
Lam(n, i, alpha, direction) ==
    IF n - i - 1 <= 0 THEN [nan |-> TRUE, v |-> 0]
    ELSE [nan |-> FALSE, v |-> LamTable[alpha][direction = "both"][n - i - 1]]

\* The working set of _esd is the pandas Series x after the drops: `vals` are
\* the values passed in (labels 0..n-1), `active` the labels not yet dropped,
\* in ascending order.
EsdWork(vals, active) == [k \in 1..Len(active) |-> vals[active[k] + 1]]

\* EsdScore with the 'neg' branch a copy of the 'pos' branch
EsdScoreNegAsPos(vals, active, direction) ==
    LET w == EsdWork(vals, active)
        m2 == Med2(w)
    IN  [k \in 1..Len(active) |->
            IF direction = "both" THEN Abs(2 * w[k] - m2) ELSE 2 * w[k] - m2]

\* 4 * (value - median), the numerator of ares, per direction (lines 168-173)
EsdScore(vals, active, direction) ==
    LET w == EsdWork(vals, active)
        m2 == Med2(w)
    IN  [k \in 1..Len(active) |->
            IF direction = "both" THEN Abs(2 * w[k] - m2)
            ELSE IF direction = "pos" THEN 2 * w[k] - m2
            ELSE m2 - 2 * w[k]]

\* 8 * median(|value - median|): mad without the factor _MAD_CONSTANT (line 165)
EsdMad(vals, active) ==
    LET w == EsdWork(vals, active)
        m2 == Med2(w)
    IN  Med2([k \in 1..Len(w) |-> Abs(2 * w[k] - m2)])

\* ares.idxmax(): position in `active` of the first maximal score (line 174)
EsdArgMax(score) ==
    CHOOSE k \in DOMAIN score :
        /\ \A j \in DOMAIN score : score[j] <= score[k]
        /\ \A j \in DOMAIN score : j < k => score[j] < score[k]

\* r > lam (line 185) with r = score / mad = 2 * s / (1.4826 * m): a
\* comparison with nan is False.
EsdExceeds(s, m, lam) ==
    /\ ~lam.nan
    /\ 10000000 * s > 7413 * lam.v * m

\* EsdRecords with a zero mad replaced by 1 instead of ending the loop
EsdRecordsMadFloor(vals, active, i, alpha, direction) ==
    LET m0 == EsdMad(vals, active)
        m == IF m0 = 0 THEN 1 ELSE m0
        score == EsdScore(vals, active, direction)
    IN  EsdExceeds(score[EsdArgMax(score)], m, Lam(Len(vals), i, alpha, direction))

\* One pass of the loop body (lines 164-191): TRUE when the pass records
\* r_idx and the loop goes on, FALSE when it breaks.
EsdRecords(vals, active, i, alpha, direction) ==
    LET m == EsdMad(vals, active)
        score == EsdScore(vals, active, direction)
    IN  /\ m # 0
        /\ EsdExceeds(score[EsdArgMax(score)], m, Lam(Len(vals), i, alpha, direction))

EsdDrop(active, k) == [j \in 1..(Len(active) - 1) |-> IF j < k THEN active[j] ELSE active[j + 1]]

\* EsdLoop going on to the next pass where the code breaks
RECURSIVE EsdLoopContinue(_, _, _, _, _, _, _)
EsdLoopContinue(vals, active, i, outlier_index, max_outlier, alpha, direction) ==
    IF i > max_outlier THEN outlier_index
    ELSE IF ~EsdRecords(vals, active, i, alpha, direction)
    THEN EsdLoopContinue(vals, active, i + 1, outlier_index, max_outlier, alpha, direction)
    ELSE LET k == EsdArgMax(EsdScore(vals, active, direction))
         IN  EsdLoopContinue(vals, EsdDrop(active, k), i + 1,
                             Append(outlier_index, active[k]), max_outlier, alpha, direction)

RECURSIVE EsdLoop(_, _, _, _, _, _, _)
EsdLoop(vals, active, i, outlier_index, max_outlier, alpha, direction) ==
    IF i > max_outlier \/ ~EsdRecords(vals, active, i, alpha, direction)
    THEN outlier_index
    ELSE LET k == EsdArgMax(EsdScore(vals, active, direction))
         IN  EsdLoop(vals, EsdDrop(active, k), i + 1,
                     Append(outlier_index, active[k]), max_outlier, alpha, direction)

_esd(vals, max_outlier, alpha, direction) ==
    EsdLoop(vals, [k \in 1..Len(vals) |-> k - 1], 1, << >>, max_outlier, alpha, direction)

\* ------------------------------------------------------------ window processor
\* MaxAnomNum rounding up
MaxAnomNumCeil(len, max_anoms) == Max(1, (len * max_anoms + 99) \div 100)

\* max_anom_num = max(1, int(len(x) * max_anoms)) (line 119)
MaxAnomNum(len, max_anoms) == Max(1, (len * max_anoms) \div 100)

\* residuals (line 117), in units of 1/2
Residuals(wx, period) ==
    LET seasons == StlSeasonal(wx, period)
        trends == _get_trends_by_median(wx)
    IN  [i \in 1..Len(wx) |-> 2 * wx[i] - 2 * seasons[i] - trends[i]]

\* The writes of lines 108-112 into the table e_values: skipped when the
\* table is None or empty, IndexError when window_start + i is no index of
\* the table, and only a None entry is written.
EValuesErr(wx, e_values, window_start) ==
    /\ e_values # << >>
    /\ \E i \in 0..(Len(wx) - 1) : ~PyIndexOk(window_start + i, Len(e_values))

\* EValuesAfter writing every entry of the window, populated or not
EValuesAfterOverwrite(wx, period, e_values, window_start) ==
    IF e_values = << >> THEN e_values
    ELSE LET seasons == StlSeasonal(wx, period)
             trends == StlTrend(wx)
             n == Len(e_values)
         IN  [j \in 1..n |->
                IF \E i \in 0..(Len(wx) - 1) : PyIndex(window_start + i, n) = j - 1
                THEN LET i == CHOOSE i \in 0..(Len(wx) - 1) :
                                  PyIndex(window_start + i, n) = j - 1
                     IN  Some(seasons[i + 1] + trends[i + 1])
                ELSE e_values[j]]

EValuesAfter(wx, period, e_values, window_start) ==
    IF e_values = << >> THEN e_values
    ELSE LET seasons == StlSeasonal(wx, period)
             trends == StlTrend(wx)
             n == Len(e_values)
         IN  [j \in 1..n |->
                IF e_values[j] # None THEN e_values[j]
                ELSE IF \E i \in 0..(Len(wx) - 1) : PyIndex(window_start + i, n) = j - 1
                THEN LET i == CHOOSE i \in 0..(Len(wx) - 1) :
                                  PyIndex(window_start + i, n) = j - 1
                     IN  Some(seasons[i + 1] + trends[i + 1])
                ELSE None]

\* _detect_anomaly_for_one_window without breakout_kwargs (lines 101-124)
_detect_anomaly_for_one_window(wx, period, max_anoms, alpha, direction, e_values, window_start) ==
    IF EValuesErr(wx, e_values, window_start)
    THEN [err |-> TRUE, e_values |-> e_values, residuals |-> << >>,
          anom_index |-> << >>, ret |-> {}]
    ELSE LET residuals == Residuals(wx, period)
             max_anom_num == MaxAnomNum(Len(wx), max_anoms)
             anom_index == _esd(residuals, max_anom_num, alpha, direction)
         IN  [err |-> FALSE,
              e_values |-> EValuesAfter(wx, period, e_values, window_start),
              residuals |-> residuals,
              anom_index |-> anom_index,
              ret |-> {window_start + anom_index[k] : k \in DOMAIN anom_index}]

\* ------------------------------------------------------ post-processing filters
\* period_maxs (lines 129-131)
PeriodMaxs(wx, period) ==
    [c \in 1..((Len(wx) + period - 1) \div period) |->
        SeqMax(PySlice(wx, (c - 1) * period, Min(Len(wx), c * period)))]

\* 100 * thresh (lines 132-138)
Thresh100(wx, period, threshold) ==
    IF threshold = "med_max" THEN 50 * Med2(PeriodMaxs(wx, period))
    ELSE IF threshold = "p95" THEN Percentile100(PeriodMaxs(wx, period), 95)
    ELSE IF threshold = "p99" THEN Percentile100(PeriodMaxs(wx, period), 99)
    ELSE 0

\* The value the filter of line 141 compares: x[index], x being the window.
ThresholdReads(wx, index) == wx[PyIndex(index, Len(wx)) + 1]

\* _post_processing_threshold (lines 127-142): IndexError when an index of ret
\* is no index of the window.
_post_processing_threshold(wx, period, wret, threshold) ==
    IF \E index \in wret : ~PyIndexOk(index, Len(wx))
    THEN [err |-> TRUE, ret |-> {}]
    ELSE [err |-> FALSE,
          ret |-> {index \in wret :
                     100 * ThresholdReads(wx, index) >= Thresh100(wx, period, threshold)}]

\* Lines 66-67: the filter is applied when threshold is set.
ThresholdFilter(wx, period, wret, threshold) ==
    IF threshold # None
    THEN _post_processing_threshold(wx, period, wret, threshold[1])
    ELSE [err |-> FALSE, ret |-> wret]

\* _post_processing_only_last (lines 145-150)
_post_processing_only_last(xs, r, last) == {value \in r : value >= Len(xs) - last}

\* ------------------------------------------------------------------- state
VARIABLES
    x,                \* the series; the value at a position of x_nan is not read
    x_nan,            \* the positions (0-based) of x that hold NaN
    period, max_anoms, alpha, direction, longterm_period, only_last,
    threshold, e_value,          \* the arguments of detect_anoms
    pc,               \* "start", "loop", "done" (returned) or "raised"
    window_cursor,    \* the loop variable of line 48 before line 57 adjusts it
    ret,              \* the set ret of detect_anoms
    e_values,         \* the table e_values; << >> when e_value is not set
    windows,          \* one record per pass of the loop of lines 48-68
    error,            \* the exception the call ended in, or "none"
    result            \* the returned value, once pc = "done"

args == << x, x_nan, period, max_anoms, alpha, direction, longterm_period,
           only_last, threshold, e_value >>
vars == << x, x_nan, period, max_anoms, alpha, direction, longterm_period,
           only_last, threshold, e_value, pc, window_cursor, ret, e_values,
           windows, error, result >>

\* ------------------------------------------------------------------ inputs
SeriesUpTo(n) == UNION {[1..k -> Values] : k \in 1..n}
Directions == {"both", "pos", "neg"}
Thresholds == {None, Some("med_max"), Some("p95"), Some("p99")}
\* None, windows shorter than the series, and windows longer than the series
LongtermPeriods == {None, Some(2), Some(3), Some(7)}

\* the threshold filter and the windows
ArgsThreshold ==
    [period : {1, 2}, max_anoms : {49}, alpha : {5}, direction : {"both"},
     longterm_period : LongtermPeriods, only_last : {None},
     threshold : Thresholds, e_value : {FALSE}, nan : {"none"}]

\* the directions and the windows
ArgsDirection ==
    [period : {1, 2}, max_anoms : {49}, alpha : {5}, direction : {"pos", "neg"},
     longterm_period : LongtermPeriods, only_last : {None},
     threshold : {None}, e_value : {FALSE}, nan : {"none"}]

\* the recency filter
ArgsOnlyLast ==
    [period : {1, 2}, max_anoms : {49}, alpha : {5}, direction : {"both"},
     longterm_period : {None, Some(3)}, only_last : {Some(0), Some(1), Some(2)},
     threshold : {None}, e_value : {FALSE}, nan : {"none"}]

\* the table of expected values
ArgsEValue ==
    [period : {1, 2}, max_anoms : {49}, alpha : {5}, direction : {"both"},
     longterm_period : LongtermPeriods, only_last : {None},
     threshold : {None}, e_value : {TRUE}, nan : {"none"}]

\* other budgets and significance levels
ArgsAlpha ==
    [period : {1}, max_anoms : {20, 49}, alpha : {240}, direction : Directions,
     longterm_period : {None}, only_last : {None},
     threshold : {None}, e_value : {FALSE}, nan : {"none"}]

\* a threshold together with a one-sided direction
ArgsOneSided ==
    [period : {1}, max_anoms : {49}, alpha : {5}, direction : {"pos", "neg"},
     longterm_period : {None}, only_last : {None},
     threshold : {Some("med_max")}, e_value : {FALSE}, nan : {"none"}]

\* arguments and series that lines 35-43 reject, next to ones they accept
ArgsInvalid ==
    [period : {1, 2}, max_anoms : {0, 20, 50}, alpha : {0, 5}, direction : {"both"},
     longterm_period : {None, Some(1), Some(2)}, only_last : {None},
     threshold : {None}, e_value : {FALSE}, nan : {"none", "first", "last"}]

\* the table of expected values together with the two filters
ArgsEValueFiltered ==
    [period : {1}, max_anoms : {49}, alpha : {5}, direction : {"both"},
     longterm_period : {None, Some(3)}, only_last : {Some(2)},
     threshold : {None, Some("med_max")}, e_value : {TRUE}, nan : {"none"}]

ArgsValid ==
    ArgsThreshold \cup ArgsDirection \cup ArgsOnlyLast \cup ArgsEValue \cup ArgsAlpha
        \cup ArgsOneSided \cup ArgsEValueFiltered

InitWith(s, a) ==
    /\ x = s
    /\ x_nan = IF a.nan = "first" THEN {0}
               ELSE IF a.nan = "last" THEN {Len(s) - 1} ELSE {}
    /\ period = a.period
    /\ max_anoms = a.max_anoms
    /\ alpha = a.alpha
    /\ direction = a.direction
    /\ longterm_period = a.longterm_period
    /\ only_last = a.only_last
    /\ threshold = a.threshold
    /\ e_value = a.e_value
    /\ pc = "start"
    /\ window_cursor = 0
    /\ ret = {}
    /\ e_values = << >>
    /\ windows = << >>
    /\ error = "none"
    /\ result = << >>

Init ==
    \/ \E s \in SeriesUpTo(MaxLen), a \in ArgsValid : InitWith(s, a)
    \/ \E s \in SeriesUpTo(MaxShortLen), a \in ArgsInvalid : InitWith(s, a)

\* ---------------------------------------------------------------- detect_anoms
\* longterm_period after lines 39-40
LongtermPeriod == IF longterm_period = None THEN Len(x) ELSE longterm_period[1]

\* WindowEnd without the clamp to the series, WindowStart without the adjustment
WindowEndNoClamp(cursor) == cursor + LongtermPeriod
WindowStartNoAlign(cursor) == cursor

\* window_end (line 50) and window_start after the adjustment of lines 56-57
WindowEnd(cursor) == Min(Len(x), cursor + LongtermPeriod)

WindowStart(cursor) ==
    IF WindowEnd(cursor) - cursor < LongtermPeriod
    THEN WindowEnd(cursor) - LongtermPeriod
    ELSE cursor

\* window_x (line 61)
WindowX(cursor) == PySlice(x, WindowStart(cursor), WindowEnd(cursor))

Raise(e) ==
    /\ pc' = "raised"
    /\ error' = e

\* Lines 35-47: the checks of the arguments and of the series.
Validate ==
    /\ pc = "start"
    /\ IF max_anoms > 49 \/ max_anoms <= 0 \/ alpha <= 0 \/ x_nan # {}
       THEN /\ Raise("ValueError")
            /\ UNCHANGED e_values
       ELSE /\ pc' = "loop"
            /\ e_values' = IF e_value THEN [i \in 1..Len(x) |-> None] ELSE << >>
            /\ UNCHANGED error
    /\ UNCHANGED << args, window_cursor, ret, windows, result >>

WindowRecord(cursor, status, w, kept) ==
    [window_start |-> WindowStart(cursor), window_end |-> WindowEnd(cursor),
     window_x |-> WindowX(cursor), status |-> status,
     residuals |-> w.residuals, anom_index |-> w.anom_index,
     window_ret |-> w.ret, kept |-> kept]

NoWindow == [residuals |-> << >>, anom_index |-> << >>, ret |-> {}]

\* Lines 48-68: one pass of the loop over the windows.
ProcessWindow ==
    /\ pc = "loop"
    /\ window_cursor < Len(x)
    /\ \E wx \in {WindowX(window_cursor)} :
           IF Len(wx) < period * 2
           THEN /\ Raise("ValueError")
                /\ windows' = Append(windows,
                                     WindowRecord(window_cursor, "short", NoWindow, {}))
                /\ UNCHANGED << window_cursor, ret, e_values >>
           ELSE \E w \in {_detect_anomaly_for_one_window(wx, period, max_anoms, alpha,
                              direction, e_values, WindowStart(window_cursor))} :
                IF w.err
                THEN /\ Raise("IndexError")
                     /\ windows' = Append(windows,
                                          WindowRecord(window_cursor, "stl", NoWindow, {}))
                     /\ UNCHANGED << window_cursor, ret, e_values >>
                ELSE \E t \in {ThresholdFilter(wx, period, w.ret, threshold)} :
                     IF t.err
                     THEN /\ Raise("IndexError")
                          /\ windows' = Append(windows,
                                               WindowRecord(window_cursor, "esd", w, {}))
                          /\ e_values' = w.e_values
                          /\ UNCHANGED << window_cursor, ret >>
                     ELSE /\ ret' = ret \cup t.ret
                          /\ e_values' = w.e_values
                          /\ windows' = Append(windows,
                                               WindowRecord(window_cursor, "ok", w, t.ret))
                          /\ window_cursor' = window_cursor + LongtermPeriod
                          /\ UNCHANGED << pc, error >>
    /\ UNCHANGED << args, result >>

\* The expected values of line 73
EValuesOf(indices) == [k \in DOMAIN indices |-> e_values[PyIndex(indices[k], Len(e_values)) + 1]]

\* Lines 69-74: the recency filter, the sort and the return.
Finish ==
    /\ pc = "loop"
    /\ window_cursor >= Len(x)
    /\ LET filtered == IF only_last # None /\ only_last[1] # 0
                       THEN _post_processing_only_last(x, ret, only_last[1])
                       ELSE ret
       IN  /\ ret' = filtered
           /\ result' = [indices |-> SortedSet(filtered),
                         e_values |-> IF e_value THEN EValuesOf(SortedSet(filtered))
                                      ELSE << >>]
    /\ pc' = "done"
    /\ UNCHANGED << args, window_cursor, e_values, windows, error >>

Next == Validate \/ ProcessWindow \/ Finish

Spec == Init /\ [][Next]_vars

\* ------------------------------------------------------------------ claims
N == Len(x)

\* the values the loop variable of line 48 takes in a call that is not cut short
Cursors == {c \in 0..(N - 1) : c % LongtermPeriod = 0}

BadArgs == max_anoms > 49 \/ max_anoms <= 0 \/ alpha <= 0
HasNaN == x_nan # {}
SomeWindowShort == \E c \in Cursors : Len(WindowX(c)) < 2 * period
Rejected == BadArgs \/ HasNaN \/ SomeWindowShort

\* a pass of the loop that got as far as the decomposition
Decomposed(w) == w.status # "short"

\* C1: a call with max_anoms outside (0, 0.49], alpha <= 0, a NaN in the
\* series or a window of fewer than 2 * period samples never returns, ends in
\* ValueError, and no window is decomposed or tested before the error: the loop
\* is still at its first window and ret is empty.
C1_FailFast ==
    Rejected =>
        /\ pc # "done"
        /\ pc = "raised" => error = "ValueError"
        /\ pc = "loop" => window_cursor = 0 /\ window_cursor < N
        /\ \A k \in DOMAIN windows : ~Decomposed(windows[k])
        /\ ret = {}

\* a series longer than longterm_period whose windows are shorter than two
\* periods: the call ends at its first window
C1_Witness ==
    /\ pc = "raised"
    /\ error = "ValueError"
    /\ ~BadArgs /\ ~HasNaN
    /\ LongtermPeriod < N
    /\ Len(windows) = 1
    /\ windows[1].status = "short"

\* C2: every returned index is an index of the series.
C2_IndicesInRange ==
    pc = "done" => \A k \in DOMAIN result.indices : result.indices[k] \in 0..(N - 1)

\* C3: with a threshold, every index a window contributes has a series value
\* at or above the threshold of that window.
C3_ThresholdOnRawValue ==
    \A k \in DOMAIN windows :
        (threshold # None /\ windows[k].status = "ok") =>
            \A g \in windows[k].kept :
                g \in 0..(N - 1) =>
                    100 * x[g + 1] >= Thresh100(windows[k].window_x, period, threshold[1])

\* C4: with only_last = K, every returned index is one of the last K.
C4_OnlyLast ==
    (pc = "done" /\ only_last # None) =>
        \A k \in DOMAIN result.indices :
            result.indices[k] \in (N - only_last[1])..(N - 1)

\* C5: a call that passes validation returns.
C5_NeverRaises == ~Rejected => pc # "raised"

IsConstant(s) == \A i, j \in DOMAIN s : s[i] = s[j]
AllLabels(len) == [k \in 1..len |-> k - 1]

\* C6: on a series whose values are all equal the scaled MAD of the residuals
\* of every window is 0 at the first pass of the ESD loop, no window records an
\* index, and the call, when it returns, returns the empty list.
C6_ConstantSeries ==
    (IsConstant(x) /\ ~HasNaN) =>
        /\ \A k \in DOMAIN windows :
               /\ windows[k].anom_index = << >>
               /\ Decomposed(windows[k]) /\ windows[k].status # "stl" =>
                      EsdMad(windows[k].residuals, AllLabels(Len(windows[k].residuals))) = 0
        /\ ret = {}
        /\ pc = "done" => result.indices = << >>

C6_Witness ==
    /\ IsConstant(x)
    /\ pc = "done"
    /\ Len(windows) >= 2
    /\ direction = "neg"
    /\ result.indices = << >>

\* the window of the pass of the loop that ran last, once it has residuals
Tested == pc \in {"loop", "raised"} /\ windows # << >>
                /\ windows[Len(windows)].status \in {"ok", "esd"}
LastWindow == windows[Len(windows)]

IsPrefix(a, b) == Len(a) <= Len(b) /\ \A k \in DOMAIN a : a[k] = b[k]

\* C7: on the residuals of a window, the list the ESD tester returns with
\* budget k is a prefix of the list it returns with a budget k2 >= k, and the
\* two are equal once the run with k has recorded fewer than k indices.
C7_BudgetMonotone ==
    Tested =>
        \A outs \in {[k \in 1..Len(LastWindow.residuals) |->
                        _esd(LastWindow.residuals, k, alpha, direction)]} :
            \A k \in DOMAIN outs, k2 \in DOMAIN outs :
                k <= k2 =>
                    /\ IsPrefix(outs[k], outs[k2])
                    /\ Len(outs[k]) < k => outs[k] = outs[k2]

\* a window on which the budget 2 finds more than the budget 1
C7_Witness ==
    /\ Tested
    /\ Len(LastWindow.anom_index) = 2
    /\ Len(_esd(LastWindow.residuals, 1, alpha, direction)) = 1

NegSeq(s) == [i \in DOMAIN s |-> -s[i]]
Swap(d) == IF d = "pos" THEN "neg" ELSE IF d = "neg" THEN "pos" ELSE d

\* what a window adds to ret (lines 64-67), for a window wx at window_start ws
Contribution(wx, ws, d) ==
    ThresholdFilter(wx, period,
        _detect_anomaly_for_one_window(wx, period, max_anoms, alpha, d, << >>, ws).ret,
        threshold)

\* the ESD tester removes the same indices in the same order from the negated
\* residuals under the swapped direction
EsdSymmetric ==
    _esd(NegSeq(LastWindow.residuals),
         MaxAnomNum(Len(LastWindow.window_x), max_anoms), alpha, Swap(direction))
        = LastWindow.anom_index

\* C8 as stated: a window of the negated series under the swapped direction
\* contributes the same indices, whatever the other arguments.
C8_DirectionSymmetry ==
    (Tested /\ direction \in {"pos", "neg"} /\ LastWindow.status = "ok") =>
        \A c \in {Contribution(NegSeq(LastWindow.window_x), LastWindow.window_start,
                                Swap(direction))} :
            ~c.err /\ c.ret = LastWindow.kept

\* C8 amended: the ESD tester is symmetric, and a window of the negated series
\* under the swapped direction contributes the same indices when no threshold
\* is set.
C8_DirectionSymmetryNoThreshold ==
    (Tested /\ direction \in {"pos", "neg"}) =>
        /\ EsdSymmetric
        /\ (threshold = None /\ LastWindow.status = "ok") =>
               \A c \in {Contribution(NegSeq(LastWindow.window_x),
                                       LastWindow.window_start, Swap(direction))} :
                   ~c.err /\ c.ret = LastWindow.kept

C8_Witness ==
    /\ Tested
    /\ direction = "pos"
    /\ threshold = None
    /\ LastWindow.status = "ok"
    /\ LastWindow.kept # {}

\* the window the loop of line 48 reaches in its k-th pass when no window is
\* longer than the series
ExpectedStart(k) == Min((k - 1) * LongtermPeriod, N - LongtermPeriod)

WindowsAsClaimed ==
    /\ \A k \in DOMAIN windows :
         Decomposed(windows[k]) =>
           /\ windows[k].window_end - windows[k].window_start = LongtermPeriod
           /\ Len(windows[k].window_x) = LongtermPeriod
           /\ 0 <= windows[k].window_start
           /\ windows[k].window_end <= N
           /\ windows[k].window_start = ExpectedStart(k)
           /\ k > 1 => windows[k - 1].window_start < windows[k].window_start
    /\ pc = "done" =>
           UNION {windows[k].window_start..(windows[k].window_end - 1) :
                      k \in DOMAIN windows} = 0..(N - 1)

\* C9 as stated: for every positive longterm_period every window has exactly
\* longterm_period samples and lies inside [0, n), the windows start at 0,
\* longterm_period, ... with the last one back-aligned to n - longterm_period,
\* and the windows of a call that returns cover 0..n-1.
C9_Windows == WindowsAsClaimed

\* C9 amended: the same for every longterm_period from 1 to n.
C9_WindowsWithinSeries == LongtermPeriod <= N => WindowsAsClaimed

\* a last window that was back-aligned and overlaps the one before
C9_Witness ==
    /\ pc = "done"
    /\ Len(windows) >= 2
    /\ LongtermPeriod <= N
    /\ LastWindow.window_start < windows[Len(windows) - 1].window_end

\* the labels still in the working set after the first m removals of out
ActiveAfter(len, out, m) ==
    LET removed == {out[j] : j \in 1..m}
    IN  SortedSet({l \in 0..(len - 1) : l \notin removed})

\* C10: the ESD tester returns at most max(1, floor(window length *
\* max_anoms)) indices, pairwise distinct positions of the residuals; every
\* pass up to the last recorded index found mad # 0 and r > lam, and a run
\* that returns fewer indices than its budget stopped at a pass with mad = 0
\* or r not above lam; the window contributes no more indices than that.
C10_EsdBudget ==
    Tested =>
        LET out == LastWindow.anom_index
            len == Len(LastWindow.residuals)
            budget == Max(1, (Len(LastWindow.window_x) * max_anoms) \div 100)
        IN  /\ Len(out) <= budget
            /\ \A j \in DOMAIN out : out[j] \in 0..(len - 1)
            /\ \A i, j \in DOMAIN out : i # j => out[i] # out[j]
            /\ \A m \in DOMAIN out :
                   EsdRecords(LastWindow.residuals, ActiveAfter(len, out, m - 1),
                              m, alpha, direction)
            /\ Len(out) < budget =>
                   ~EsdRecords(LastWindow.residuals, ActiveAfter(len, out, Len(out)),
                               Len(out) + 1, alpha, direction)
            /\ Cardinality(LastWindow.window_ret) <= budget
            /\ LastWindow.kept \subseteq LastWindow.window_ret

\* a window that used up a budget of 2 although a third pass would record
C10_Witness ==
    /\ Tested
    /\ Len(LastWindow.anom_index) = 2
    /\ Len(_esd(LastWindow.residuals, 3, alpha, direction)) = 3

\* the entry of the table that Python's e_values[i] reads
Entry(i) == e_values[PyIndex(i, Len(e_values)) + 1]

\* no step changes an entry of the table that is populated
NeverOverwritten ==
    \A j \in DOMAIN e_values :
        e_values[j] # None => j \in DOMAIN e_values' /\ e_values'[j] = e_values[j]

\* the windows were processed in ascending order of their start
AscendingStarts ==
    \A k \in DOMAIN windows :
        k > 1 => windows[k - 1].window_start < windows[k].window_start

\* the two lists of a call that returns with e_value set
ReturnedParallel ==
    (pc = "done" /\ e_value) =>
        /\ Len(result.e_values) = Len(result.indices)
        /\ \A k \in DOMAIN result.indices :
               /\ PyIndexOk(result.indices[k], Len(e_values))
               /\ Entry(result.indices[k]) # None
               /\ result.e_values[k] = Entry(result.indices[k])

\* C11: with e_value set the windows are processed in ascending order of
\* their start and no step changes a populated entry of the table e_values;
\* every returned index has a populated entry, and the returned list of
\* expected values is as long as the list of indices, its k-th element the
\* entry e_values[i] of the k-th returned index i.
C11_FirstWriterWins ==
    /\ [][e_value => NeverOverwritten]_vars
    /\ [](e_value => AscendingStarts /\ ReturnedParallel)

\* the value the window w would write for the entry of index i (line 112)
WouldWrite(w, i) ==
    Some(StlSeasonal(w.window_x, period)[i - w.window_start + 1]
             + StlTrend(w.window_x)[i - w.window_start + 1])

\* a call that returns an index of the overlap of its last two windows, for
\* which the later window computed another expected value than the table holds
C11_Witness ==
    /\ pc = "done"
    /\ e_value
    /\ Len(windows) >= 2
    /\ \E k \in DOMAIN result.indices :
         LET i == result.indices[k]
             prev == windows[Len(windows) - 1]
         IN  /\ LastWindow.window_start <= i
             /\ i < prev.window_end
             /\ WouldWrite(LastWindow, i) # Entry(i)
             /\ WouldWrite(prev, i) = Entry(i)
             /\ result.e_values[k] = Entry(i)

====
